---- MODULE Spec2Model ----
(***************************************************************************)
(* Model of the Nextcloud operator charm (src/src/charm.py).               *)
(*                                                                         *)
(* The charm is a set of event handlers run one at a time by the host      *)
(* framework.  The state is the charm's stored database mapping, the unit  *)
(* status, the pod spec last handed to the platform, and what the          *)
(* framework supplies: the leadership flag and the configuration.          *)
(* `event' is the event object the last handler received and `trace' the   *)
(* observable effects of that handler, in the order the code performs      *)
(* them.                                                                   *)
(***************************************************************************)
EXTENDS Integers, Sequences, FiniteSets, TLC

VARIABLES is_leader, config, store, status, pod_spec, event, trace

vars == <<is_leader, config, store, status, pod_spec, event, trace>>

-----------------------------------------------------------------------------
(* Bounds of the model *)

MaxPort == 1
NumCreds == 2

-----------------------------------------------------------------------------
(* Constants of charm.py *)

REQUIRED_SETTINGS_none == <<>>

REQUIRED_SETTINGS_with_port == <<"image", "port">>

REQUIRED_SETTINGS == <<"image">>

REQUIRED_DATABASE_FIELDS == {"type", "host", "name", "user", "password"}

VALID_DATABASE_TYPES_with_sqlite == {"mysql", "postgres", "sqlite"}

VALID_DATABASE_TYPES_with_postgresql == {"mysql", "postgres", "postgresql"}

VALID_DATABASE_TYPES == {"mysql", "postgres"}

(* Python's None, for the string-valued lookups dict.get and event.unit *)
None == "None"

(* The empty dict {} *)
EmptyMap == [k \in {} |-> ""]

(* self.app.name *)
AppName == "nextcloud"

-----------------------------------------------------------------------------
(* Inputs the framework can deliver *)

Images == {"", "nextcloud:testing", "nextcloud:latest"}

Ports == 0..MaxPort

Configs == [image : Images, port : Ports]

DbTypes == {"mysql", "postgres", "postgresql", "MySQL", "sqlite"}

(* Relation data of the remote unit: a mapping from the keys it has set to *)
(* strings.  S is the set of keys present, t the value of type, i selects  *)
(* the credential set, he makes host the empty string.                     *)
RelData(S, t, i, he) ==
    [k \in S |-> IF k = "type" THEN t
                 ELSE IF k = "host" /\ he THEN ""
                 ELSE k \o "-" \o ToString(i)]

AllKeys == REQUIRED_DATABASE_FIELDS \cup {"port"}

RelationDatas ==
    {RelData(REQUIRED_DATABASE_FIELDS, t, i, FALSE) :
        t \in VALID_DATABASE_TYPES, i \in 1..NumCreds}
    \cup {RelData(REQUIRED_DATABASE_FIELDS, t, 1, FALSE) : t \in DbTypes}
    \cup {RelData(REQUIRED_DATABASE_FIELDS, "mysql", 1, TRUE)}
    \cup {RelData(AllKeys, "mysql", 1, FALSE)}
    \cup {RelData(REQUIRED_DATABASE_FIELDS \ {f}, "mysql", 1, FALSE) :
            f \in REQUIRED_DATABASE_FIELDS}
    \cup {EmptyMap}

RelationChangedEvents ==
    [name : {"relation_changed"}, unit : {"mysql/0"}, data : RelationDatas]
    \cup [name : {"relation_changed"}, unit : {None},
          data : {EmptyMap, RelData(REQUIRED_DATABASE_FIELDS, "mysql", 1, FALSE)}]

-----------------------------------------------------------------------------
(* Helpers *)

(* dict.get(key, default) *)
Get(m, k, default) == IF k \in DOMAIN m THEN m[k] ELSE default

(* truth value of a string or None *)
Truthy(s) == s /= None /\ s /= ""

(* str.lower() on the strings of the model *)
Lower(s) ==
    CASE s = "MySQL" -> "mysql"
      [] s = "PostgreSQL" -> "postgresql"
      [] OTHER -> s

(* a merge that keeps the value a key already has *)
Update_keep_existing(m, other) ==
    [k \in DOMAIN m \cup DOMAIN other |->
        IF k \in DOMAIN m THEN m[k] ELSE other[k]]

(* dict.update(other) *)
Update(m, other) ==
    [k \in DOMAIN m \cup DOMAIN other |->
        IF k \in DOMAIN other THEN other[k] ELSE m[k]]

(* ', '.join(seq) *)
RECURSIVE Join(_)
Join(seq) ==
    IF seq = <<>> THEN ""
    ELSE IF Len(seq) = 1 THEN seq[1]
    ELSE seq[1] \o ", " \o Join(Tail(seq))

(* the settings names in alphabetical order, the order sorted() gives *)
AlphabeticalSettings == <<"image", "port">>

(* sorted(seq) for a list of setting names *)
Sorted(seq) ==
    SelectSeq(AlphabeticalSettings, LAMBDA s : \E j \in 1..Len(seq) : seq[j] = s)

(* `not config[setting]': the empty string for image, zero for port *)
NotSet(cfg, setting) ==
    IF setting = "port" THEN cfg.port = 0 ELSE cfg[setting] = ""

-----------------------------------------------------------------------------
(* Unit statuses *)

WaitingStatus(msg) == [name |-> "waiting", message |-> msg]

BlockedStatus(msg) == [name |-> "blocked", message |-> msg]

MaintenanceStatus(msg) == [name |-> "maintenance", message |-> msg]

ActiveStatus == [name |-> "active", message |-> ""]

UnknownStatus == [name |-> "unknown", message |-> ""]

-----------------------------------------------------------------------------
(* Pure functions of the charm *)

_missing_charm_settings(cfg) ==
    Sorted(SelectSeq(REQUIRED_SETTINGS, LAMBDA setting : NotSet(cfg, setting)))

_check_for_config_problems(cfg) ==
    LET missing == _missing_charm_settings(cfg)
    IN  IF missing /= <<>>
        THEN "required setting(s) empty: " \o Join(missing)
        ELSE ""

_build_pod_spec_default_port(cfg) ==
    [version |-> 3,
     containers |-> <<
        [name |-> AppName,
         imageDetails |-> [imagePath |-> cfg.image],
         ports |-> << [name |-> "http", containerPort |-> 80, protocol |-> "TCP"] >>,
         volumeConfig |-> <<>>,
         envConfig |-> EmptyMap,
         kubernetes |-> [readinessProbe |->
            [httpGet |-> [path |-> "/status.php", port |-> "http"],
             initialDelaySeconds |-> 10,
             timeoutSeconds |-> 30]]] >>]

_build_pod_spec(cfg) ==
    [version |-> 3,
     containers |-> <<
        [name |-> AppName,
         imageDetails |-> [imagePath |-> cfg.image],
         ports |-> << [name |-> "http", containerPort |-> cfg.port, protocol |-> "TCP"] >>,
         volumeConfig |-> <<>>,
         envConfig |-> EmptyMap,
         kubernetes |-> [readinessProbe |->
            [httpGet |-> [path |-> "/status.php", port |-> "http"],
             initialDelaySeconds |-> 10,
             timeoutSeconds |-> 30]]] >>]

(* the env built from the type as stored, without lower-casing it *)
_update_pod_env_config_no_lower(db, spec) ==
    LET db_type == Get(db, "type", "")
        env0 == EmptyMap
        env1 == IF db_type = "mysql"
                THEN [MYSQL_DATABASE |-> Get(db, "name", None),
                      MYSQL_USER |-> Get(db, "user", None),
                      MYSQL_PASSWORD |-> Get(db, "password", None),
                      MYSQL_HOST |-> Get(db, "host", None)]
                ELSE env0
        env2 == IF db_type = "postgresql" \/ db_type = "postgres"
                THEN [POSTGRES_DB |-> Get(db, "name", None),
                      POSTGRES_USER |-> Get(db, "user", None),
                      POSTGRES_PASSWORD |-> Get(db, "password", None),
                      POSTGRES_HOST |-> Get(db, "host", None)]
                ELSE env1
    IN  [spec EXCEPT !.containers[1].envConfig = env2]

_update_pod_env_config(db, spec) ==
    LET db_type == Lower(Get(db, "type", ""))
        env0 == EmptyMap
        env1 == IF db_type = "mysql"
                THEN [MYSQL_DATABASE |-> Get(db, "name", None),
                      MYSQL_USER |-> Get(db, "user", None),
                      MYSQL_PASSWORD |-> Get(db, "password", None),
                      MYSQL_HOST |-> Get(db, "host", None)]
                ELSE env0
        env2 == IF db_type = "postgresql" \/ db_type = "postgres"
                THEN [POSTGRES_DB |-> Get(db, "name", None),
                      POSTGRES_USER |-> Get(db, "user", None),
                      POSTGRES_PASSWORD |-> Get(db, "password", None),
                      POSTGRES_HOST |-> Get(db, "host", None)]
                ELSE env1
    IN  [spec EXCEPT !.containers[1].envConfig = env2]

-----------------------------------------------------------------------------
(* Effects recorded in trace *)

SetStatus(st) == <<"unit.status", st>>

SetSpec(spec) == <<"set_spec", spec>>

SetStore(before, after) == <<"store.database", before, after>>

Log(level, what) == <<"logger", level, what>>

-----------------------------------------------------------------------------
(* Handlers *)

(* the decision chain with the configuration check moved to the front *)
configure_pod_problems_first(db, tr) ==
    LET problems == _check_for_config_problems(config)
    IN  IF problems /= ""
        THEN /\ status' = BlockedStatus(problems)
             /\ trace' = tr \o <<SetStatus(BlockedStatus(problems))>>
             /\ UNCHANGED pod_spec
        ELSE IF ~Truthy(Get(db, "host", None))
        THEN /\ status' = WaitingStatus("Waiting for database relation")
             /\ trace' = tr \o <<SetStatus(WaitingStatus("Waiting for database relation"))>>
             /\ UNCHANGED pod_spec
        ELSE IF ~is_leader
        THEN /\ status' = ActiveStatus
             /\ trace' = tr \o <<SetStatus(ActiveStatus)>>
             /\ UNCHANGED pod_spec
        ELSE LET spec == _update_pod_env_config(db, _build_pod_spec(config))
             IN  /\ pod_spec' = <<spec>>
                 /\ status' = ActiveStatus
                 /\ trace' = tr \o <<SetStatus(MaintenanceStatus("Building pod spec.")),
                                     SetSpec(spec),
                                     SetStatus(ActiveStatus)>>

(* a pass that does not wait for the database relation *)
configure_pod_no_host_check(db, tr) ==
    LET problems == _check_for_config_problems(config)
    IN  IF problems /= ""
        THEN /\ status' = BlockedStatus(problems)
             /\ trace' = tr \o <<SetStatus(BlockedStatus(problems))>>
             /\ UNCHANGED pod_spec
        ELSE IF ~is_leader
        THEN /\ status' = ActiveStatus
             /\ trace' = tr \o <<SetStatus(ActiveStatus)>>
             /\ UNCHANGED pod_spec
        ELSE LET spec == _update_pod_env_config(db, _build_pod_spec(config))
             IN  /\ pod_spec' = <<spec>>
                 /\ status' = ActiveStatus
                 /\ trace' = tr \o <<SetStatus(MaintenanceStatus("Building pod spec.")),
                                     SetSpec(spec),
                                     SetStatus(ActiveStatus)>>

(* a pass that reports Active before it hands the spec over *)
configure_pod_active_before_publish(db, tr) ==
    IF ~Truthy(Get(db, "host", None))
    THEN /\ status' = WaitingStatus("Waiting for database relation")
         /\ trace' = tr \o <<SetStatus(WaitingStatus("Waiting for database relation"))>>
         /\ UNCHANGED pod_spec
    ELSE LET problems == _check_for_config_problems(config)
         IN  IF problems /= ""
             THEN /\ status' = BlockedStatus(problems)
                  /\ trace' = tr \o <<SetStatus(BlockedStatus(problems))>>
                  /\ UNCHANGED pod_spec
             ELSE IF ~is_leader
             THEN /\ status' = ActiveStatus
                  /\ trace' = tr \o <<SetStatus(ActiveStatus)>>
                  /\ UNCHANGED pod_spec
             ELSE LET spec == _update_pod_env_config(db, _build_pod_spec(config))
                  IN  /\ pod_spec' = <<spec>>
                      /\ status' = ActiveStatus
                      /\ trace' = tr \o <<SetStatus(MaintenanceStatus("Building pod spec.")),
                                          SetStatus(ActiveStatus),
                                          SetSpec(spec)>>

(* a pass that publishes nothing when the unit is already active *)
configure_pod_skip_when_active(db, tr) ==
    IF ~Truthy(Get(db, "host", None))
    THEN /\ status' = WaitingStatus("Waiting for database relation")
         /\ trace' = tr \o <<SetStatus(WaitingStatus("Waiting for database relation"))>>
         /\ UNCHANGED pod_spec
    ELSE LET problems == _check_for_config_problems(config)
         IN  IF problems /= ""
             THEN /\ status' = BlockedStatus(problems)
                  /\ trace' = tr \o <<SetStatus(BlockedStatus(problems))>>
                  /\ UNCHANGED pod_spec
             ELSE IF ~is_leader \/ status = ActiveStatus
             THEN /\ status' = ActiveStatus
                  /\ trace' = tr \o <<SetStatus(ActiveStatus)>>
                  /\ UNCHANGED pod_spec
             ELSE LET spec == _update_pod_env_config(db, _build_pod_spec(config))
                  IN  /\ pod_spec' = <<spec>>
                      /\ status' = ActiveStatus
                      /\ trace' = tr \o <<SetStatus(MaintenanceStatus("Building pod spec.")),
                                          SetSpec(spec),
                                          SetStatus(ActiveStatus)>>

(* configure_pod run against the stored mapping db, after the effects tr   *)
(* that the calling handler has already performed.                         *)
configure_pod(db, tr) ==
    IF ~Truthy(Get(db, "host", None))
    THEN /\ status' = WaitingStatus("Waiting for database relation")
         /\ trace' = tr \o <<SetStatus(WaitingStatus("Waiting for database relation"))>>
         /\ UNCHANGED pod_spec
    ELSE LET problems == _check_for_config_problems(config)
         IN  IF problems /= ""
             THEN /\ status' = BlockedStatus(problems)
                  /\ trace' = tr \o <<SetStatus(BlockedStatus(problems))>>
                  /\ UNCHANGED pod_spec
             ELSE IF ~is_leader
             THEN /\ status' = ActiveStatus
                  /\ trace' = tr \o <<SetStatus(ActiveStatus)>>
                  /\ UNCHANGED pod_spec
             ELSE LET spec == _update_pod_env_config(db, _build_pod_spec(config))
                  IN  /\ pod_spec' = <<spec>>
                      /\ status' = ActiveStatus
                      /\ trace' = tr \o <<SetStatus(MaintenanceStatus("Building pod spec.")),
                                          SetSpec(spec),
                                          SetStatus(ActiveStatus)>>

(* the five required fields as read from the remote unit's relation data *)
database_fields(ev) ==
    [field \in REQUIRED_DATABASE_FIELDS |-> Get(ev.data, field, None)]

(* a check that looks at the connection fields only *)
missing_fields_host_and_type(fields) ==
    {field \in {"type", "host"} : fields[field] = None}

missing_fields(fields) ==
    {field \in REQUIRED_DATABASE_FIELDS : fields[field] = None}

(* a handler that accepts the relation data on every unit *)
on_database_changed_any_unit(ev) ==
    /\ event' = ev
    /\ UNCHANGED <<is_leader, config>>
    /\ IF ev.unit = None
       THEN /\ trace' = <<Log("warning", "unit")>>
            /\ UNCHANGED <<store, status, pod_spec>>
       ELSE LET fields == database_fields(ev)
            IN  IF missing_fields(fields) /= {}
                THEN /\ trace' = <<Log("error", "missing")>>
                     /\ UNCHANGED <<store, status, pod_spec>>
                ELSE IF fields["type"] \notin VALID_DATABASE_TYPES
                THEN /\ trace' = <<Log("error", "type")>>
                     /\ UNCHANGED <<store, status, pod_spec>>
                ELSE LET present == {f \in REQUIRED_DATABASE_FIELDS : fields[f] /= None}
                         new == Update(store, [f \in present |-> fields[f]])
                     IN  /\ store' = new
                         /\ configure_pod(new, <<SetStore(store, new)>>)

(* a handler that stores the credentials and leaves the status alone *)
on_database_changed_no_reconcile(ev) ==
    /\ event' = ev
    /\ UNCHANGED <<is_leader, config>>
    /\ IF ~is_leader
       THEN /\ trace' = <<>>
            /\ UNCHANGED <<store, status, pod_spec>>
       ELSE IF ev.unit = None
       THEN /\ trace' = <<Log("warning", "unit")>>
            /\ UNCHANGED <<store, status, pod_spec>>
       ELSE LET fields == database_fields(ev)
            IN  IF missing_fields(fields) /= {}
                THEN /\ trace' = <<Log("error", "missing")>>
                     /\ UNCHANGED <<store, status, pod_spec>>
                ELSE IF fields["type"] \notin VALID_DATABASE_TYPES
                THEN /\ trace' = <<Log("error", "type")>>
                     /\ UNCHANGED <<store, status, pod_spec>>
                ELSE LET present == {f \in REQUIRED_DATABASE_FIELDS : fields[f] /= None}
                         new == Update(store, [f \in present |-> fields[f]])
                     IN  /\ store' = new
                         /\ trace' = <<SetStore(store, new)>>
                         /\ UNCHANGED <<status, pod_spec>>

on_database_changed(ev) ==
    /\ event' = ev
    /\ UNCHANGED <<is_leader, config>>
    /\ IF ~is_leader
       THEN /\ trace' = <<>>
            /\ UNCHANGED <<store, status, pod_spec>>
       ELSE IF ev.unit = None
       THEN /\ trace' = <<Log("warning", "unit")>>
            /\ UNCHANGED <<store, status, pod_spec>>
       ELSE LET fields == database_fields(ev)
            IN  IF missing_fields(fields) /= {}
                THEN /\ trace' = <<Log("error", "missing")>>
                     /\ UNCHANGED <<store, status, pod_spec>>
                ELSE IF fields["type"] \notin VALID_DATABASE_TYPES
                THEN /\ trace' = <<Log("error", "type")>>
                     /\ UNCHANGED <<store, status, pod_spec>>
                ELSE LET present == {f \in REQUIRED_DATABASE_FIELDS : fields[f] /= None}
                         new == Update(store, [f \in present |-> fields[f]])
                     IN  /\ store' = new
                         /\ configure_pod(new, <<SetStore(store, new)>>)

(* a handler that runs a reconciliation pass after clearing the store *)
on_database_broken_reconciles ==
    /\ event' = [name |-> "relation_broken"]
    /\ UNCHANGED <<is_leader, config>>
    /\ IF ~is_leader
       THEN /\ trace' = <<>>
            /\ UNCHANGED <<store, status, pod_spec>>
       ELSE /\ store' = EmptyMap
            /\ configure_pod(EmptyMap, <<SetStore(store, EmptyMap)>>)

(* a handler that clears the store on every unit *)
on_database_broken_any_unit ==
    /\ event' = [name |-> "relation_broken"]
    /\ UNCHANGED <<is_leader, config, status, pod_spec>>
    /\ store' = EmptyMap
    /\ trace' = <<SetStore(store, EmptyMap)>>

(* a handler that forgets the host only *)
on_database_broken_host_only ==
    /\ event' = [name |-> "relation_broken"]
    /\ UNCHANGED <<is_leader, config, status, pod_spec>>
    /\ IF ~is_leader
       THEN /\ trace' = <<>>
            /\ UNCHANGED store
       ELSE /\ store' = [f \in DOMAIN store \ {"host"} |-> store[f]]
            /\ trace' = <<SetStore(store, [f \in DOMAIN store \ {"host"} |-> store[f]])>>

on_database_broken ==
    /\ event' = [name |-> "relation_broken"]
    /\ UNCHANGED <<is_leader, config, status, pod_spec>>
    /\ IF ~is_leader
       THEN /\ trace' = <<>>
            /\ UNCHANGED store
       ELSE /\ store' = EmptyMap
            /\ trace' = <<SetStore(store, EmptyMap)>>

-----------------------------------------------------------------------------
(* Events delivered by the framework, and the changes it makes itself *)

Start ==
    /\ event' = [name |-> "start"]
    /\ configure_pod(store, <<>>)
    /\ UNCHANGED <<is_leader, config, store>>

ConfigChanged ==
    /\ event' = [name |-> "config_changed"]
    /\ configure_pod(store, <<>>)
    /\ UNCHANGED <<is_leader, config, store>>

UpgradeCharm ==
    /\ event' = [name |-> "upgrade_charm"]
    /\ configure_pod(store, <<>>)
    /\ UNCHANGED <<is_leader, config, store>>

DatabaseRelationChanged ==
    \E ev \in RelationChangedEvents : on_database_changed(ev)

DatabaseRelationBroken == on_database_broken

(* the operator changes the configuration; no handler has run on it yet *)
UpdateConfig ==
    \E cfg \in Configs :
        /\ cfg /= config
        /\ config' = cfg
        /\ event' = [name |-> "update_config"]
        /\ trace' = <<>>
        /\ UNCHANGED <<is_leader, store, status, pod_spec>>

(* leadership moves to or away from this unit *)
SetLeader ==
    /\ is_leader' = ~is_leader
    /\ event' = [name |-> "set_leader"]
    /\ trace' = <<>>
    /\ UNCHANGED <<config, store, status, pod_spec>>

Init ==
    /\ is_leader \in BOOLEAN
    /\ config \in Configs
    /\ store = EmptyMap
    /\ status = UnknownStatus
    /\ pod_spec = <<>>
    /\ event = [name |-> "install"]
    /\ trace = <<>>

Next ==
    \/ Start
    \/ ConfigChanged
    \/ UpgradeCharm
    \/ DatabaseRelationChanged
    \/ DatabaseRelationBroken
    \/ UpdateConfig
    \/ SetLeader

Spec == Init /\ [][Next]_vars

-----------------------------------------------------------------------------
(* A unit that is never elected leader: the same handlers and the same     *)
(* events, without a change of leadership.                                 *)

InitNeverLeader ==
    /\ Init
    /\ ~is_leader

NextNeverLeader ==
    \/ Start
    \/ ConfigChanged
    \/ UpgradeCharm
    \/ DatabaseRelationChanged
    \/ DatabaseRelationBroken
    \/ UpdateConfig

SpecNeverLeader == InitNeverLeader /\ [][NextNeverLeader]_vars

-----------------------------------------------------------------------------
(* The env mapping on its own: _update_pod_env_config applied to a freshly *)
(* built spec, for any mapping the store may be assigned, as the unit test *)
(* of the function drives it.                                              *)

EnvDbTypes == DbTypes \cup {"PostgreSQL"}

EnvStores ==
    {RelData(REQUIRED_DATABASE_FIELDS, t, i, FALSE) :
        t \in EnvDbTypes, i \in 1..NumCreds}
    \cup {RelData(REQUIRED_DATABASE_FIELDS \ {f}, t, 1, FALSE) :
            f \in REQUIRED_DATABASE_FIELDS, t \in VALID_DATABASE_TYPES}
    \cup {EmptyMap}

(* charm.state.database = {...} *)
EnvSetDatabase ==
    \E db \in EnvStores :
        /\ store' = db
        /\ event' = [name |-> "set_database"]
        /\ trace' = <<SetStore(store, db)>>
        /\ UNCHANGED <<is_leader, config, status, pod_spec>>

(* charm._update_pod_env_config(pod_spec) *)
EnvUpdatePodEnvConfig ==
    /\ pod_spec /= <<>>
    /\ pod_spec' = <<_update_pod_env_config(store, pod_spec[1])>>
    /\ event' = [name |-> "_update_pod_env_config"]
    /\ trace' = <<>>
    /\ UNCHANGED <<is_leader, config, store, status>>

EnvInit ==
    /\ is_leader = TRUE
    /\ config \in Configs
    /\ store \in EnvStores
    /\ status = UnknownStatus
    /\ pod_spec = <<_build_pod_spec(config)>>
    /\ event = [name |-> "_build_pod_spec"]
    /\ trace = <<>>

EnvNext ==
    \/ EnvSetDatabase
    \/ EnvUpdatePodEnvConfig

SpecEnv == EnvInit /\ [][EnvNext]_vars

-----------------------------------------------------------------------------
(* Reading the trace of the last handler *)

Published(tr) == \E j \in 1..Len(tr) : tr[j][1] = "set_spec"

Reconciled(tr) == \E j \in 1..Len(tr) : tr[j][1] = "unit.status"

StoreWritten(tr) == \E j \in 1..Len(tr) : tr[j][1] = "store.database"

TypeOK ==
    /\ is_leader \in BOOLEAN
    /\ config \in Configs
    /\ DOMAIN store \subseteq REQUIRED_DATABASE_FIELDS
    /\ status.name \in {"unknown", "waiting", "blocked", "active"}
    /\ Len(pod_spec) <= 1

(* the status the last handler set last *)
LastStatus(tr) ==
    LET js == {j \in 1..Len(tr) : tr[j][1] = "unit.status"}
    IN  tr[CHOOSE j \in js : \A h \in js : h <= j][2]

(* a relation-changed event the handler must reject *)
Rejected(ev) ==
    \/ ev.unit = None
    \/ \E f \in {"type", "host", "name", "user", "password"} : f \notin DOMAIN ev.data
    \/ ev.data["type"] \notin {"mysql", "postgres"}

(* the five required values of a complete relation data mapping *)
FiveFields(data) == [f \in {"type", "host", "name", "user", "password"} |-> data[f]]

HasHost == "host" \in DOMAIN store /\ store["host"] /= ""

-----------------------------------------------------------------------------
(* C1: every reconciliation pass (start, config-changed, upgrade-charm, an *)
(* accepted relation-changed) ends with the status decided in strict       *)
(* order: Waiting if the store has no host value, even when the config has *)
(* problems too; otherwise Blocked(problems) if checkProblems is           *)
(* non-empty; otherwise Active, on the leader and on a non-leader alike.   *)
C1_StatusDecidedInOrder ==
    /\ event.name \in {"start", "config_changed", "upgrade_charm"} => Reconciled(trace)
    /\ (event.name = "relation_changed" /\ StoreWritten(trace)) => Reconciled(trace)
    /\ Reconciled(trace) =>
        /\ status = LastStatus(trace)
        /\ status =
            IF ~HasHost
            THEN [name |-> "waiting", message |-> "Waiting for database relation"]
            ELSE IF _check_for_config_problems(config) /= ""
            THEN [name |-> "blocked", message |-> _check_for_config_problems(config)]
            ELSE [name |-> "active", message |-> ""]

C1_Witness ==
    /\ Reconciled(trace)
    /\ ~HasHost
    /\ config.image = ""
    /\ status.name = "waiting"

(* C2: a handler that runs while the unit is not the leader never          *)
(* publishes a pod spec and never changes the database store, whatever the *)
(* event.                                                                  *)
C2_NonLeaderNeverPublishesNorMutates ==
    [][~is_leader =>
        /\ store' = store
        /\ pod_spec' = pod_spec
        /\ ~Published(trace')
        /\ ~StoreWritten(trace')]_vars

C2_Witness ==
    /\ ~is_leader
    /\ event.name = "relation_changed"
    /\ ~Rejected(event)
    /\ store /= EmptyMap
    /\ store /= FiveFields(event.data)

(* C3: the store is either the empty mapping or holds all five fields with *)
(* type in {mysql, postgres}, in every reachable state.                    *)
C3_StoreEmptyOrComplete ==
    \/ store = EmptyMap
    \/ /\ DOMAIN store = {"type", "host", "name", "user", "password"}
       /\ store["type"] \in {"mysql", "postgres"}

C3_Witness ==
    /\ is_leader
    /\ event.name = "relation_changed"
    /\ event.unit /= None
    /\ DOMAIN event.data /= {}
    /\ \E f \in {"type", "host", "name", "user", "password"} : f \notin DOMAIN event.data
    /\ DOMAIN store = {"type", "host", "name", "user", "password"}

(* C4: a rejected relation-changed event (no originating unit, a required  *)
(* field absent, or a type other than mysql / postgres) leaves the stored  *)
(* credentials as they were, changes no unit status, runs no pass and      *)
(* publishes no spec.                                                      *)
C4_RejectedChangesNothing ==
    [][(event'.name = "relation_changed" /\ Rejected(event')) =>
        /\ store' = store
        /\ status' = status
        /\ pod_spec' = pod_spec
        /\ ~Reconciled(trace')
        /\ ~Published(trace')
        /\ ~StoreWritten(trace')]_vars

C4_Witness ==
    /\ is_leader
    /\ event.name = "relation_changed"
    /\ event.unit /= None
    /\ DOMAIN event.data = {"type", "host", "name", "user", "password"}
    /\ event.data["type"] = "postgresql"
    /\ store /= EmptyMap
    /\ status.name = "active"

C7_AcceptedReplacesStore ==
    (event.name = "relation_changed" /\ is_leader /\ ~Rejected(event)) =>
        /\ store = FiveFields(event.data)
        /\ Len(trace) >= 2
        /\ trace[1][1] = "store.database"
        /\ trace[1][3] = store
        /\ trace[2][1] = "unit.status"

C7_Witness ==
    /\ event.name = "relation_changed"
    /\ is_leader
    /\ ~Rejected(event)
    /\ StoreWritten(trace)
    /\ trace[1][2] /= EmptyMap
    /\ \A f \in DOMAIN store : f /= "type" => trace[1][2][f] /= store[f]

(* C8: when the leader handles a relation-broken event the store becomes   *)
(* the empty mapping, from any prior content.                              *)
C8_BrokenClearsStore ==
    (event.name = "relation_broken" /\ is_leader) =>
        /\ store = EmptyMap
        /\ StoreWritten(trace)

C8_Witness ==
    /\ event.name = "relation_broken"
    /\ is_leader
    /\ StoreWritten(trace)
    /\ trace[1][2] /= EmptyMap
    /\ store = EmptyMap

(* C9: for a leader with a populated store and a config with image and     *)
(* port set, the spec a pass publishes has containerPort equal to the      *)
(* configured port and imagePath equal to the configured image, and it is  *)
(* the spec in force afterwards; such a pass publishes whenever the stored *)
(* host is non-empty.                                                      *)
C9_PublishedSpecMatchesConfig ==
    (Reconciled(trace) /\ is_leader /\ store /= EmptyMap
        /\ config.image /= "" /\ config.port /= 0) =>
        /\ HasHost => Published(trace)
        /\ \A j \in 1..Len(trace) : trace[j][1] = "set_spec" =>
            /\ trace[j][2].containers[1].ports[1].containerPort = config.port
            /\ trace[j][2].containers[1].imageDetails.imagePath = config.image
            /\ pod_spec = <<trace[j][2]>>

C9_Witness ==
    /\ Published(trace)
    /\ is_leader
    /\ store /= EmptyMap
    /\ config.image = "nextcloud:testing"
    /\ config.port = MaxPort
    /\ pod_spec[1].containers[1].ports[1].containerPort = MaxPort
    /\ pod_spec[1].containers[1].imageDetails.imagePath = "nextcloud:testing"

(* C10: from the initial state (empty store, nothing published, no status  *)
(* set yet), when the leader handles a config-changed event with image and *)
(* port set, a pod spec has been published whose containerPort and         *)
(* imagePath equal the configured port and image.                          *)
C10_ConfigChangedPublishesFromInitialState ==
    [][(/\ status = UnknownStatus
        /\ store = EmptyMap
        /\ pod_spec = <<>>
        /\ is_leader
        /\ config.image /= ""
        /\ config.port /= 0
        /\ event'.name = "config_changed") =>
        (/\ pod_spec' /= <<>>
         /\ pod_spec'[1].containers[1].ports[1].containerPort = config.port
         /\ pod_spec'[1].containers[1].imageDetails.imagePath = config.image)]_vars

(* C11: buildEnv maps the store by its lower-cased type: mysql gives       *)
(* exactly the four MYSQL_* entries, postgres or postgresql exactly the    *)
(* four POSTGRES_* entries, with the store's name, user, password and      *)
(* host; every other type, a store without type and the empty store give   *)
(* the empty mapping; the result replaces the spec's envConfig and leaves  *)
(* the rest of the spec as built.                                          *)
C11_EnvByLowerCasedType ==
    event.name = "_update_pod_env_config" =>
        LET env == pod_spec[1].containers[1].envConfig
            V(k) == IF k \in DOMAIN store THEN store[k] ELSE "None"
            t == IF "type" \in DOMAIN store THEN store["type"] ELSE ""
        IN  /\ t \in {"mysql", "MySQL"} =>
                /\ DOMAIN env = {"MYSQL_DATABASE", "MYSQL_USER", "MYSQL_PASSWORD", "MYSQL_HOST"}
                /\ env["MYSQL_DATABASE"] = V("name")
                /\ env["MYSQL_USER"] = V("user")
                /\ env["MYSQL_PASSWORD"] = V("password")
                /\ env["MYSQL_HOST"] = V("host")
            /\ t \in {"postgres", "postgresql", "PostgreSQL"} =>
                /\ DOMAIN env = {"POSTGRES_DB", "POSTGRES_USER", "POSTGRES_PASSWORD", "POSTGRES_HOST"}
                /\ env["POSTGRES_DB"] = V("name")
                /\ env["POSTGRES_USER"] = V("user")
                /\ env["POSTGRES_PASSWORD"] = V("password")
                /\ env["POSTGRES_HOST"] = V("host")
            /\ t \notin {"mysql", "MySQL", "postgres", "postgresql", "PostgreSQL"} =>
                DOMAIN env = {}
            /\ [pod_spec[1] EXCEPT !.containers[1].envConfig = EmptyMap]
                    = _build_pod_spec(config)

C11_Witness ==
    /\ event.name = "_update_pod_env_config"
    /\ "type" \in DOMAIN store
    /\ store["type"] = "MySQL"
    /\ pod_spec[1].containers[1].envConfig["MYSQL_HOST"] = store["host"]

(* the statuses a handler set, in order *)
StatusSeq(tr) == SelectSeq(tr, LAMBDA e : e[1] = "unit.status")

C13_Original_ValidRelationChangedEndsWaiting ==
    [][(/\ status.name = "waiting"
        /\ event'.name = "relation_changed"
        /\ ~Rejected(event')) =>
        status'.name /= "waiting"]_vars

(* C13, amended: if the status is Waiting, the unit is the leader and a    *)
(* relation-changed event with all five fields, a valid type and a         *)
(* non-empty host arrives, the status after the event is Blocked or        *)
(* Active.  On a non-leader the event is ignored, and with an empty host   *)
(* the pass ends in Waiting again.  (The witness is a unit whose store     *)
(* held an empty host before the event, so that it was Waiting.)           *)
C13_LeaderValidRelationChangedEndsWaiting ==
    [][(/\ status.name = "waiting"
        /\ is_leader
        /\ event'.name = "relation_changed"
        /\ ~Rejected(event')
        /\ event'.data["host"] /= "") =>
        status'.name \in {"blocked", "active"}]_vars

C13_Witness ==
    /\ is_leader
    /\ event.name = "relation_changed"
    /\ ~Rejected(event)
    /\ event.data["host"] /= ""
    /\ StoreWritten(trace)
    /\ "host" \in DOMAIN trace[1][2]
    /\ trace[1][2]["host"] = ""
    /\ status.name = "active"

(* C14: a pass on the leader with a host present and no config problems    *)
(* sets Maintenance('Building pod spec.'), builds the spec from the config *)
(* and patches its env from the store, publishes it, then sets Active: the *)
(* spec is published while the status is Maintenance, exactly one spec is  *)
(* published in the pass, and the pass ends Active.                        *)
C14_PublishBetweenMaintenanceAndActive ==
    /\ (Reconciled(trace) /\ is_leader /\ HasHost /\ config.image /= "") =>
            Published(trace)
    /\ Published(trace) =>
        LET n == Len(trace)
        IN  /\ n >= 3
            /\ trace[n - 2][1] = "unit.status"
            /\ trace[n - 2][2] = [name |-> "maintenance", message |-> "Building pod spec."]
            /\ trace[n - 1][1] = "set_spec"
            /\ trace[n][1] = "unit.status"
            /\ trace[n][2] = [name |-> "active", message |-> ""]
            /\ Cardinality({j \in 1..n : trace[j][1] = "set_spec"}) = 1
            /\ Cardinality({j \in 1..n : trace[j][1] = "unit.status"}) = 2
            /\ trace[n - 1][2].containers[1].imageDetails.imagePath = config.image
            /\ trace[n - 1][2].containers[1].ports[1].containerPort = config.port
            /\ DOMAIN trace[n - 1][2].containers[1].envConfig /= {}
            /\ \A k \in {"MYSQL_HOST", "POSTGRES_HOST"} :
                    k \in DOMAIN trace[n - 1][2].containers[1].envConfig =>
                        trace[n - 1][2].containers[1].envConfig[k] = store["host"]
            /\ status = [name |-> "active", message |-> ""]
            /\ is_leader
            /\ HasHost

C14_Witness ==
    /\ event.name = "config_changed"
    /\ is_leader
    /\ HasHost
    /\ Len(trace) = 3
    /\ trace[1][2].name = "maintenance"
    /\ trace[2][1] = "set_spec"
    /\ trace[3][2].name = "active"

(* C15: a relation-broken event changes nothing but the store: it runs no  *)
(* reconciliation pass, so the unit status and the last published spec     *)
(* are left as they were, on the leader and on a non-leader.               *)
C15_BrokenChangesOnlyStore ==
    [][event'.name = "relation_broken" =>
        /\ status' = status
        /\ pod_spec' = pod_spec
        /\ config' = config
        /\ is_leader' = is_leader
        /\ ~Reconciled(trace')
        /\ ~Published(trace')]_vars

C15_Witness ==
    /\ event.name = "relation_broken"
    /\ is_leader
    /\ StoreWritten(trace)
    /\ trace[1][2] /= EmptyMap
    /\ store = EmptyMap
    /\ status.name = "active"
    /\ pod_spec /= <<>>

(* the spec handed to set_spec by the last handler *)
PublishedSpec(tr) == tr[CHOOSE j \in 1..Len(tr) : tr[j][1] = "set_spec"][2]

(* C16: every spec published through the event handlers has an envConfig   *)
(* of exactly four entries, MYSQL_* when the store's type is mysql and      *)
(* POSTGRES_* when it is postgres, whose values are the store's name,       *)
(* user, password and host at the moment of publication; no spec in force   *)
(* has an empty envConfig.                                                  *)
C16_PublishedEnvHasFourEntries ==
    /\ pod_spec /= <<>> =>
            Cardinality(DOMAIN pod_spec[1].containers[1].envConfig) = 4
    /\ Published(trace) =>
        LET env == PublishedSpec(trace).containers[1].envConfig
        IN  /\ DOMAIN store = {"type", "host", "name", "user", "password"}
            /\ store["type"] \in {"mysql", "postgres"}
            /\ store["type"] = "mysql" =>
                /\ DOMAIN env = {"MYSQL_DATABASE", "MYSQL_USER", "MYSQL_PASSWORD", "MYSQL_HOST"}
                /\ env["MYSQL_DATABASE"] = store["name"]
                /\ env["MYSQL_USER"] = store["user"]
                /\ env["MYSQL_PASSWORD"] = store["password"]
                /\ env["MYSQL_HOST"] = store["host"]
            /\ store["type"] = "postgres" =>
                /\ DOMAIN env = {"POSTGRES_DB", "POSTGRES_USER", "POSTGRES_PASSWORD", "POSTGRES_HOST"}
                /\ env["POSTGRES_DB"] = store["name"]
                /\ env["POSTGRES_USER"] = store["user"]
                /\ env["POSTGRES_PASSWORD"] = store["password"]
                /\ env["POSTGRES_HOST"] = store["host"]

C16_Witness ==
    /\ Published(trace)
    /\ event.name = "relation_changed"
    /\ store["type"] = "postgres"
    /\ trace[1][2] /= EmptyMap
    /\ trace[1][2]["type"] = "mysql"
    /\ PublishedSpec(trace).containers[1].envConfig["POSTGRES_HOST"] = store["host"]

(* C17: a unit that has never been the leader keeps an empty store, so     *)
(* every reconciliation pass on it ends in Waiting; it never reaches       *)
(* Active (nor Blocked) and never has a spec, so a non-leader that is      *)
(* Active has been the leader when it accepted a relation-changed event.   *)
C17_NeverLeaderStaysWaiting ==
    /\ ~is_leader
    /\ store = EmptyMap
    /\ pod_spec = <<>>
    /\ status.name \in {"unknown", "waiting"}
    /\ event.name \in {"start", "config_changed", "upgrade_charm"} =>
        /\ Reconciled(trace)
        /\ status = [name |-> "waiting", message |-> "Waiting for database relation"]
    /\ event.name \in {"relation_changed", "relation_broken"} => trace = <<>>

C17_Witness ==
    /\ ~is_leader
    /\ event.name = "relation_changed"
    /\ ~Rejected(event)
    /\ event.data["host"] /= ""
    /\ config.image /= ""
    /\ store = EmptyMap
    /\ status.name = "waiting"

(* C18: a published spec is never retracted nor replaced by one without    *)
(* database env; while the store is empty, as after a leader's             *)
(* relation-broken event, every pass (start, config-changed,               *)
(* upgrade-charm) ends in Waiting and publishes nothing, so the spec in    *)
(* force, with the old credentials, changes only when a relation-changed   *)
(* event is accepted.                                                      *)
C18_SpecStaysInForceWhileStoreEmpty ==
    [][/\ pod_spec /= <<>> =>
            /\ pod_spec' /= <<>>
            /\ DOMAIN pod_spec'[1].containers[1].envConfig /= {}
       /\ (store = EmptyMap /\ event'.name \in {"start", "config_changed", "upgrade_charm"}) =>
            /\ status'.name = "waiting"
            /\ pod_spec' = pod_spec
            /\ store' = EmptyMap
            /\ ~Published(trace')
       /\ (store = EmptyMap /\ (pod_spec' /= pod_spec \/ Published(trace'))) =>
            /\ event'.name = "relation_changed"
            /\ ~Rejected(event')]_vars

C18_Witness ==
    /\ is_leader
    /\ event.name = "config_changed"
    /\ store = EmptyMap
    /\ status.name = "waiting"
    /\ pod_spec /= <<>>
    /\ "MYSQL_HOST" \in DOMAIN pod_spec[1].containers[1].envConfig
    /\ pod_spec[1].containers[1].envConfig["MYSQL_HOST"] = "host-1"
    /\ pod_spec[1].containers[1].imageDetails.imagePath /= config.image
    /\ config.image /= ""
====
